---- MODULE Spec2Model ----
(***************************************************************************)
(* OpenAI Status Monitor (src/app.py): the per-feed polling engine         *)
(* watch_feed, the session routes api_start / api_stop, the monitor        *)
(* thread, broadcast and the websocket handler, as one state machine.      *)
(*                                                                         *)
(* Threads: one Flask thread per request (api_start, api_stop, websocket), *)
(* one monitor thread per accepted api_start; the watchers of a session    *)
(* are coroutines of that thread's event loop.  The module-level globals   *)
(* are shared by all of them without a lock.  A thread switch is modelled  *)
(* where it matters for those globals: between the sends of one broadcast, *)
(* around the awaits of watch_feed, and between the steps of a handler.    *)
(***************************************************************************)
EXTENDS Integers, Sequences, FiniteSets, TLC

\* ---------------------------------------------------------------- bounds
MaxStarts  == 2      \* accepted api_start calls
MaxFeeds   == 1      \* feeds in one start request
MaxClients == 2      \* websocket connections ever opened
MaxPolls   == 1      \* responses of status 200, over all watchers
MaxStops   == 1      \* api_stop calls

\* ------------------------------------------------------------- constants
CHECK_INTERVAL == 30
REPLAY == 20         \* incidents_log[:20] of the websocket handler

None == "None"

Sessions == 1..MaxStarts
Slots    == 1..MaxFeeds
WIds     == Sessions \X Slots
Clients  == 1..MaxClients
FeedNames == {"f1"}

\* the request bodies of /api/start: a feed list of 0..MaxFeeds configs
FeedLists == UNION {[1..n -> FeedNames] : n \in 0..MaxFeeds}

\* ------------------------------------------------------------ feed data
\* An entry as feedparser hands it over: id, link and title are optional.
EA  == [id |-> "a",  link |-> "la", title |-> "A"]
EB  == [id |-> "b",  link |-> "lb", title |-> "B"]
EC  == [id |-> None, link |-> "lc", title |-> "C"]
EN1 == [id |-> None, link |-> None, title |-> "N1"]
EN2 == [id |-> None, link |-> None, title |-> None]

\* The response bodies the origin may send, by name; feedparser.parse maps a
\* body to its entries (newest first).  "a1" and "a2" differ as text and
\* parse to the same entries.
BodyEntries ==
  [ empty |-> <<>>,
    a1    |-> <<EA>>,
    a2    |-> <<EA>>,
    ba    |-> <<EB, EA>>,
    c     |-> <<EC>>,
    cba   |-> <<EC, EB, EA>>,
    nn    |-> <<EN1, EN2>> ]

Bodies == DOMAIN BodyEntries

parse(body) == BodyEntries[body]

\* hashlib.md5(text).hexdigest(): a digest, equal exactly for equal texts
content_hash(text) == <<"md5", text>>
NoHash == <<>>

\* the validators a 200 response may carry: <<ETag, Last-Modified>>
Validators == {<<None, None>>, <<"E1", None>>, <<None, "M1">>, <<"E1", "M1">>}

Responses ==
  [status : {"304", "500", "exc"}, body : {None}, hdr : {<<None, None>>}]
    \cup [status : {"200"}, body : Bodies, hdr : Validators]

\* --------------------------------------------------------------- events
LogEv(level, msg) ==
  [type |-> "log", level |-> level, provider |-> "-", title |-> msg,
   link |-> "-", is_new |-> FALSE, key |-> "-", by |-> 0]

\* e.get("id") or e.get("link", "")
uid(e) == IF e.id # None THEN e.id ELSE IF e.link # None THEN e.link ELSE ""

\* the incident dict of lines 152-160 / 184-192.  key (the entry's dedup key)
\* and by (the session of the emitting watcher) are not fields of the dict:
\* they are carried along for the bookkeeping of the properties only.
Incident(e, provider, is_new, by) ==
  [type |-> "incident", level |-> "-", provider |-> provider,
   title |-> IF e.title # None THEN e.title ELSE "No title",
   link  |-> IF e.link # None THEN e.link ELSE "#",
   is_new |-> is_new, key |-> uid(e), by |-> by]

RECURSIVE Reverse(_)
Reverse(s) == IF s = <<>> THEN <<>> ELSE Append(Reverse(Tail(s)), Head(s))

RECURSIVE NewEntries(_, _)
NewEntries(entries, seen) ==
  IF entries = <<>> THEN <<>>
  ELSE LET e == Head(entries) IN
       IF uid(e) \notin seen
         THEN <<e>> \o NewEntries(Tail(entries), seen \cup {uid(e)})
         ELSE NewEntries(Tail(entries), seen)

Keys(entries) == {uid(entries[i]) : i \in 1..Len(entries)}

VARIABLES
  \* module globals (lines 24-28)
  active_feeds, monitor_thread, monitor_running, connected_clients, incidents_log,
  \* monitor threads, one per accepted start
  thr,
  \* watch_feed locals, per watcher
  pc, name, etag, last_mod, last_hash, seen_ids, first_run,
  \* the rest of the current loop iteration of a watcher
  todo, commit, guarded,
  \* broadcast calls in progress, per calling thread
  bc,
  \* api_stop call in progress
  stop_pc,
  \* websocket handlers and connections
  cl, broken, recv,
  \* bookkeeping for the properties
  starts, stops, polls, stopLast, stop_redundant, poll, boot_keys, out, emitted,
  returned, last_rc,
  \* a call of extract_product: its arguments and its result
  arg_title, arg_content, product

globals  == <<active_feeds, monitor_thread, monitor_running, connected_clients, incidents_log>>
wlocals  == <<etag, last_mod, last_hash, seen_ids, first_run>>
wctl     == <<pc, name, todo, commit, guarded>>
clientv  == <<cl, broken, recv>>
ghostv   == <<starts, stops, polls, stopLast, stop_redundant, poll, boot_keys, out,
              emitted, returned, last_rc>>
classv   == <<arg_title, arg_content, product>>
vars     == <<globals, thr, wlocals, wctl, bc, stop_pc, clientv, ghostv, classv>>

\* ------------------------------------------------------------ broadcast
Callers == Sessions \cup {0}      \* a monitor thread, or 0: the api_stop request

\* the set iterator and the local set dead of one broadcast call
Idle == [on |-> FALSE, used |-> 0, visited |-> {}, dead |-> {}, start |-> {}]

\* ws.send(payload) to c inside the try of lines 80-83: a send to a broken
\* connection raises and c joins dead
Visit(fr, cc, brk, c) ==
  [res |-> "cont",
   fr  |-> [on |-> TRUE,
            used |-> IF fr.on THEN fr.used ELSE Cardinality(cc),
            visited |-> fr.visited \cup {c},
            dead |-> IF c \in brk THEN fr.dead \cup {c} ELSE fr.dead,
            start |-> IF fr.on THEN fr.start ELSE cc],
   cc  |-> cc,
   to  |-> IF c \in brk THEN {} ELSE {c}]

\* One step of broadcast (lines 75-84) on the frame fr of the call, with the
\* set connected_clients = cc as it is now: the possible outcomes.
\*   cont  : the iterator yielded a client and the send was attempted
\*   done  : the iterator is exhausted; difference_update(dead) has run
\*   raise : the set's size differs from the size at the start of the
\*           iteration: RuntimeError, raised at the for statement, outside
\*           the try; dead is lost
\* The step that creates the iterator also takes its first element.  A set
\* iterates in table order: an element added during the iteration (the size
\* being restored by a removal) may or may not be yielded.
broadcast(fr, cc, brk) ==
  IF ~fr.on
    THEN IF cc = {}
           THEN {[res |-> "done", fr |-> Idle, cc |-> cc, to |-> {}]}
           ELSE {Visit(fr, cc, brk, c) : c \in cc}
    ELSE IF Cardinality(cc) # fr.used
           THEN {[res |-> "raise", fr |-> Idle, cc |-> cc, to |-> {}]}
           ELSE {Visit(fr, cc, brk, c) : c \in cc \ fr.visited}
                  \cup (IF (cc \cap fr.start) \subseteq fr.visited
                          THEN {[res |-> "done", fr |-> Idle,
                                 cc |-> cc \ fr.dead, to |-> {}]}
                          ELSE {})

\* what a connection has received; of the log lines only the one of api_stop
\* is recorded
Recorded(ev) == ev.type = "incident" \/ ev.title = "stopped"
Deliver(rcv, to, ev) ==
  [c \in Clients |-> IF c \in to /\ Recorded(ev) THEN Append(rcv[c], ev) ELSE rcv[c]]

\* ----------------------------------------------------------------- Init
AllKeys == {"a", "b", "lc", ""}
NoCommit == [on |-> FALSE, keys |-> {}]
NoLocals == [etag |-> None, last_mod |-> None, last_hash |-> NoHash,
             seen_ids |-> {}, first_run |-> TRUE]
\* bookkeeping of a watcher's current loop iteration: the status and body of
\* its response, whether feedparser.parse was called, how many responses of
\* status 200 the watcher has had (counted to 2), the locals before it, and
\* whether the response carried an ETag or a Last-Modified header
NoPoll == [status |-> "none", body |-> None, parsed |-> FALSE, n200 |-> 0,
           pre |-> NoLocals, validated |-> FALSE]

InitMonitor ==
  /\ active_feeds = <<>>
  /\ monitor_thread = 0
  /\ monitor_running = FALSE
  /\ connected_clients = {}
  /\ incidents_log = <<>>
  /\ thr = [s \in Sessions |-> "none"]
  /\ pc = [w \in WIds |-> "none"]
  /\ name = [w \in WIds |-> None]
  /\ etag = [w \in WIds |-> None]
  /\ last_mod = [w \in WIds |-> None]
  /\ last_hash = [w \in WIds |-> NoHash]
  /\ seen_ids = [w \in WIds |-> {}]
  /\ first_run = [w \in WIds |-> TRUE]
  /\ todo = [w \in WIds |-> <<>>]
  /\ commit = [w \in WIds |-> NoCommit]
  /\ guarded = [w \in WIds |-> FALSE]
  /\ bc = [k \in Callers |-> Idle]
  /\ stop_pc = "idle"
  /\ cl = [c \in Clients |-> "idle"]
  /\ broken = {}
  /\ recv = [c \in Clients |-> <<>>]
  /\ starts = 0
  /\ stops = 0
  /\ polls = 0
  /\ stopLast = FALSE
  /\ stop_redundant = FALSE
  /\ poll = [w \in WIds |-> NoPoll]
  /\ boot_keys = [w \in WIds |-> {}]
  /\ out = [w \in WIds |-> <<>>]
  /\ emitted = [w \in WIds |-> <<>>]
  /\ returned = [w \in WIds |-> [k \in AllKeys |-> 0]]
  /\ last_rc = 0

\* no call of extract_product has been made
Init ==
  /\ InitMonitor
  /\ arg_title = ""
  /\ arg_content = ""
  /\ product = None

\* ------------------------------------------------------- session routes
\* api_start with the reset of lines 242-243 moved above the test of line
\* 238: a rejected request stops the session and clears the log.  Not the
\* program; C8_RejectedStartChangesNothing must tell it from api_start.
api_start_reset_first(feeds) ==
  IF feeds = <<>>
    THEN /\ last_rc' = 400
         /\ monitor_running' = FALSE
         /\ incidents_log' = <<>>
         /\ UNCHANGED <<classv, active_feeds, monitor_thread, connected_clients, thr,
                        wlocals, wctl, bc, stop_pc, clientv,
                        starts, stops, polls, stopLast, stop_redundant, poll,
                        boot_keys, out, emitted, returned>>
    ELSE /\ starts < MaxStarts
         /\ monitor_running' = FALSE
         /\ incidents_log' = <<>>
         /\ active_feeds' = feeds
         /\ monitor_thread' = starts + 1
         /\ thr' = [thr EXCEPT ![starts + 1] = "spawned"]
         /\ starts' = starts + 1
         /\ stopLast' = FALSE
         /\ last_rc' = 200
         /\ UNCHANGED <<classv, connected_clients, wlocals, wctl, bc, stop_pc, clientv,
                        stops, polls, stop_redundant, poll, boot_keys, out,
                        emitted, returned>>

\* POST /api/start (lines 231-250)
api_start(feeds) ==
  IF feeds = <<>>
    THEN /\ last_rc' = 400
         /\ UNCHANGED <<classv, globals, thr, wlocals, wctl, bc, stop_pc, clientv,
                        starts, stops, polls, stopLast, stop_redundant, poll,
                        boot_keys, out, emitted, returned>>
    ELSE /\ starts < MaxStarts
         /\ monitor_running' = FALSE
         /\ incidents_log' = <<>>
         /\ active_feeds' = feeds
         /\ monitor_thread' = starts + 1
         /\ thr' = [thr EXCEPT ![starts + 1] = "spawned"]
         /\ starts' = starts + 1
         /\ stopLast' = FALSE
         /\ last_rc' = 200
         /\ UNCHANGED <<classv, connected_clients, wlocals, wctl, bc, stop_pc, clientv,
                        stops, polls, stop_redundant, poll, boot_keys, out,
                        emitted, returned>>

\* the monitor thread begins to run (lines 216-221, 210-213): it sets the
\* flag and creates one watch_feed coroutine per config of active_feeds
start_monitor_thread(s) ==
  /\ thr[s] = "spawned"
  /\ monitor_running' = TRUE
  /\ thr' = [thr EXCEPT ![s] = "running"]
  /\ pc' = [w \in WIds |->
              IF w[1] = s /\ w[2] <= Len(active_feeds) THEN "init" ELSE pc[w]]
  /\ name' = [w \in WIds |->
              IF w[1] = s /\ w[2] <= Len(active_feeds) THEN active_feeds[w[2]] ELSE name[w]]
  /\ UNCHANGED <<classv, active_feeds, monitor_thread, connected_clients, incidents_log,
                 wlocals, todo, commit, guarded, bc, stop_pc, clientv, ghostv>>

\* POST /api/stop (lines 253-258): the flag, then the broadcast of the log
\* line; the call answers 200 when broadcast returns and 500 when it raises
StopEv == LogEv("warn", "stopped")

StopBroadcast ==
  \E o \in broadcast(bc[0], connected_clients, broken) :
    /\ bc' = [bc EXCEPT ![0] = o.fr]
    /\ connected_clients' = o.cc
    /\ recv' = Deliver(recv, o.to, StopEv)
    /\ stop_pc' = IF o.res = "cont" THEN "bcast" ELSE "idle"
    /\ last_rc' = CASE o.res = "cont"  -> 0
                    [] o.res = "done"  -> 200
                    [] o.res = "raise" -> 500

api_stop_call ==
  /\ stop_pc = "idle"
  /\ monitor_running' = FALSE
  /\ stops' = stops + 1
  /\ stopLast' = TRUE
  /\ stop_redundant' = (starts = 0 \/ stopLast)
  /\ StopBroadcast
  /\ UNCHANGED <<classv, active_feeds, monitor_thread, incidents_log,
                 thr, wlocals, wctl, cl, broken,
                 starts, polls, poll, boot_keys, out, emitted, returned>>

api_stop_broadcast ==
  /\ stop_pc = "bcast"
  /\ StopBroadcast
  /\ UNCHANGED <<classv, active_feeds, monitor_thread, monitor_running, incidents_log,
                 thr, wlocals, wctl, cl, broken,
                 starts, stops, polls, stopLast, stop_redundant, poll, boot_keys,
                 out, emitted, returned>>

\* ------------------------------------------------------------ watch_feed
\* the event loop of the watcher's session is running and no coroutine of it
\* is between two awaits
LoopFree(w) ==
  /\ thr[w[1]] = "running"
  /\ \A i \in Slots : pc[<<w[1], i>>] # "emit"

Locals(w) ==
  [etag |-> etag[w], last_mod |-> last_mod[w], last_hash |-> last_hash[w],
   seen_ids |-> seen_ids[w], first_run |-> first_run[w]]

\* What one loop iteration does with the response, up to its first broadcast:
\* the locals as assigned so far, todo (the events still to be broadcast, in
\* order; an incident is inserted into incidents_log right before its
\* broadcast), commit (the assignments that follow the last broadcast),
\* guarded (whether a raise is caught by the except of line 204) and parsed
\* (whether feedparser.parse was called).

\* line 120
etag_support(server_etag, server_lmod) == server_etag # None \/ server_lmod # None

\* lines 126-127
hash_unchanged(L, support, current_hash) ==
  ~L.first_run /\ ~support /\ current_hash = L.last_hash

\* lines 110-114
on_304(L) ==
  [L |-> L, todo |-> <<LogEv("ok", "304")>>, commit |-> NoCommit, guarded |-> TRUE,
   parsed |-> FALSE]

\* lines 201-202
on_other_status(L) ==
  [L |-> L, todo |-> <<LogEv("warn", "http")>>, commit |-> NoCommit, guarded |-> TRUE,
   parsed |-> FALSE]

\* lines 204-205: session.get or resp.text() raised
on_exception(L) ==
  [L |-> L, todo |-> <<LogEv("error", "exception")>>, commit |-> NoCommit,
   guarded |-> FALSE, parsed |-> FALSE]

\* a first poll that broadcasts its incident before the "Connected" line.
\* Not the program; C16_LogThenIncidents must tell it from first_poll.
first_poll_incident_first(L, entries, nm, s) ==
  [L |-> L,
   todo |-> (IF entries # <<>> THEN <<Incident(entries[1], nm, FALSE, s)>> ELSE <<>>)
              \o <<LogEv("info", "connected")>>,
   commit |-> [on |-> TRUE, keys |-> Keys(entries)],
   guarded |-> TRUE, parsed |-> TRUE]

\* lines 139-166
first_poll(L, entries, nm, s) ==
  [L |-> L,
   todo |-> <<LogEv("info", "connected")>>
              \o (IF entries # <<>> THEN <<Incident(entries[1], nm, FALSE, s)>> ELSE <<>>),
   commit |-> [on |-> TRUE, keys |-> Keys(entries)],
   guarded |-> TRUE, parsed |-> TRUE]

\* a steady-state poll without the seen_ids filter of line 172: every entry
\* of the response counts as new.  Not the program; C1_AtMostOneNewIncident
\* must tell it from steady_poll.
steady_poll_nodedup(L, entries, nm, s) ==
  LET rev == Reverse(entries)
  IN [L |-> [L EXCEPT !.seen_ids = L.seen_ids \cup Keys(entries)],
      todo |-> IF entries # <<>>
                 THEN [i \in 1..Len(rev) |-> Incident(rev[i], nm, TRUE, s)]
                 ELSE <<LogEv("ok", "nonew")>>,
      commit |-> NoCommit,
      guarded |-> TRUE, parsed |-> TRUE]

\* a steady-state poll that rebuilds seen_ids from the entries of the
\* response instead of adding to it.  Not the program;
\* C12_SeenIdsMonotonic must tell it from steady_poll.
steady_poll_replace_seen(L, entries, nm, s) ==
  LET new_entries == NewEntries(entries, L.seen_ids)
      rev == Reverse(new_entries)
  IN [L |-> [L EXCEPT !.seen_ids = Keys(entries)],
      todo |-> IF new_entries # <<>>
                 THEN [i \in 1..Len(rev) |-> Incident(rev[i], nm, TRUE, s)]
                 ELSE <<LogEv("ok", "nonew")>>,
      commit |-> NoCommit,
      guarded |-> TRUE, parsed |-> TRUE]

\* lines 168-199
steady_poll(L, entries, nm, s) ==
  LET new_entries == NewEntries(entries, L.seen_ids)
      rev == Reverse(new_entries)
  IN [L |-> [L EXCEPT !.seen_ids = L.seen_ids \cup Keys(new_entries)],
      todo |-> IF new_entries # <<>>
                 THEN [i \in 1..Len(rev) |-> Incident(rev[i], nm, TRUE, s)]
                 ELSE <<LogEv("ok", "nonew")>>,
      commit |-> NoCommit,
      guarded |-> TRUE, parsed |-> TRUE]

\* lines 116-199
on_200(L, body, hdr, nm, s) ==
  LET server_etag == hdr[1]
      server_lmod == hdr[2]
      support == etag_support(server_etag, server_lmod)
      L1 == [L EXCEPT !.etag = IF server_etag # None THEN server_etag ELSE L.etag,
                      !.last_mod = IF server_lmod # None THEN server_lmod ELSE L.last_mod]
      current_hash == content_hash(body)
  IN IF hash_unchanged(L1, support, current_hash)
       THEN [L |-> L1, todo |-> <<LogEv("ok", "hash")>>, commit |-> NoCommit,
             guarded |-> TRUE, parsed |-> FALSE]
       ELSE LET L2 == [L1 EXCEPT !.last_hash = current_hash] IN
            IF L2.first_run THEN first_poll(L2, parse(body), nm, s)
                            ELSE steady_poll(L2, parse(body), nm, s)

on_response(L, r, nm, s) ==
  CASE r.status = "304" -> on_304(L)
    [] r.status = "200" -> on_200(L, r.body, r.hdr, nm, s)
    [] r.status = "exc" -> on_exception(L)
    [] OTHER            -> on_other_status(L)

\* One step of the broadcast of the next event of the iteration (with the
\* incidents_log.insert(0, incident) of lines 161 / 193 before an incident),
\* and what follows it: the next event; the end of the iteration (the
\* assignments of lines 164-166, then the sleep, or the loop test of line 101
\* after the start line); or the except clause of lines 204-205.  cur holds
\* the iteration's todo, commit, guarded, seen_ids, first_run and out as they
\* are before the step, and start: whether it is the start line's broadcast.
Emit(w, cur) ==
  LET s == w[1]
      ev == Head(cur.todo)
      begin == ~bc[s].on
  IN \E o \in broadcast(bc[s], connected_clients, broken) :
       /\ bc' = [bc EXCEPT ![s] = o.fr]
       /\ connected_clients' = o.cc
       /\ recv' = Deliver(recv, o.to, ev)
       /\ incidents_log' = IF begin /\ ev.type = "incident"
                             THEN <<ev>> \o incidents_log ELSE incidents_log
       /\ out' = [out EXCEPT ![w] = IF begin THEN Append(cur.out, ev) ELSE cur.out]
       /\ emitted' = IF begin /\ ev.type = "incident"
                       THEN [emitted EXCEPT ![w] = Append(@, ev)] ELSE emitted
       /\ CASE o.res = "cont" ->
                 /\ pc' = [pc EXCEPT ![w] = "emit"]
                 /\ todo' = [todo EXCEPT ![w] = cur.todo]
                 /\ commit' = [commit EXCEPT ![w] = cur.commit]
                 /\ guarded' = [guarded EXCEPT ![w] = cur.guarded]
                 /\ seen_ids' = [seen_ids EXCEPT ![w] = cur.seen_ids]
                 /\ first_run' = [first_run EXCEPT ![w] = cur.first_run]
                 /\ UNCHANGED thr
            [] o.res = "done" /\ Len(cur.todo) > 1 ->
                 /\ pc' = [pc EXCEPT ![w] = "emit"]
                 /\ todo' = [todo EXCEPT ![w] = Tail(cur.todo)]
                 /\ commit' = [commit EXCEPT ![w] = cur.commit]
                 /\ guarded' = [guarded EXCEPT ![w] = cur.guarded]
                 /\ seen_ids' = [seen_ids EXCEPT ![w] = cur.seen_ids]
                 /\ first_run' = [first_run EXCEPT ![w] = cur.first_run]
                 /\ UNCHANGED thr
            [] o.res = "done" /\ Len(cur.todo) = 1 ->
                 /\ pc' = [pc EXCEPT ![w] =
                             IF ~cur.start THEN "sleep"
                             ELSE IF monitor_running THEN "fetch" ELSE "stopped"]
                 /\ todo' = [todo EXCEPT ![w] = <<>>]
                 /\ commit' = [commit EXCEPT ![w] = NoCommit]
                 /\ guarded' = [guarded EXCEPT ![w] = FALSE]
                 /\ seen_ids' = [seen_ids EXCEPT ![w] = cur.seen_ids \cup cur.commit.keys]
                 /\ first_run' = [first_run EXCEPT ![w] = cur.first_run /\ ~cur.commit.on]
                 /\ UNCHANGED thr
            [] o.res = "raise" /\ cur.guarded ->
                 /\ pc' = [pc EXCEPT ![w] = "emit"]
                 /\ todo' = [todo EXCEPT ![w] = <<LogEv("error", "exception")>>]
                 /\ commit' = [commit EXCEPT ![w] = NoCommit]
                 /\ guarded' = [guarded EXCEPT ![w] = FALSE]
                 /\ seen_ids' = [seen_ids EXCEPT ![w] = cur.seen_ids]
                 /\ first_run' = [first_run EXCEPT ![w] = cur.first_run]
                 /\ UNCHANGED thr
            [] o.res = "raise" /\ ~cur.guarded ->
                 /\ pc' = [pc EXCEPT ![w] = "crashed"]
                 /\ thr' = [thr EXCEPT ![s] = "dead"]
                 /\ todo' = [todo EXCEPT ![w] = <<>>]
                 /\ commit' = [commit EXCEPT ![w] = NoCommit]
                 /\ guarded' = [guarded EXCEPT ![w] = FALSE]
                 /\ seen_ids' = [seen_ids EXCEPT ![w] = cur.seen_ids]
                 /\ first_run' = [first_run EXCEPT ![w] = cur.first_run]

\* line 99: the coroutine's first step, the broadcast of the start line
watch_feed_start(w) ==
  /\ pc[w] = "init"
  /\ LoopFree(w)
  /\ Emit(w, [todo |-> <<LogEv("info", "starting")>>, commit |-> NoCommit,
              guarded |-> FALSE, start |-> TRUE,
              seen_ids |-> seen_ids[w], first_run |-> first_run[w], out |-> <<>>])
  /\ poll' = [poll EXCEPT ![w] = [NoPoll EXCEPT !.status = "start"]]
  /\ UNCHANGED <<classv, active_feeds, monitor_thread, monitor_running, etag, last_mod,
                 last_hash, name, stop_pc, cl, broken,
                 starts, stops, polls, stopLast, stop_redundant, boot_keys,
                 returned, last_rc>>

\* lines 132 / 207 and 101: the sleep ends and while monitor_running is
\* evaluated; then session.get is awaited
watch_feed_loop(w) ==
  /\ pc[w] = "sleep"
  /\ LoopFree(w)
  /\ pc' = [pc EXCEPT ![w] = IF monitor_running THEN "fetch" ELSE "stopped"]
  /\ UNCHANGED <<classv, globals, thr, wlocals, name, todo, commit, guarded, bc, stop_pc,
                 clientv, ghostv>>

\* lines 102-205: the response (or the exception) arrives and is handled up
\* to the first step of the iteration's first broadcast
watch_feed_response(w, r) ==
  /\ pc[w] = "fetch"
  /\ LoopFree(w)
  /\ LET n == on_response(Locals(w), r, name[w], w[1]) IN
       /\ etag' = [etag EXCEPT ![w] = n.L.etag]
       /\ last_mod' = [last_mod EXCEPT ![w] = n.L.last_mod]
       /\ last_hash' = [last_hash EXCEPT ![w] = n.L.last_hash]
       /\ Emit(w, [todo |-> n.todo, commit |-> n.commit, guarded |-> n.guarded,
                   start |-> FALSE, seen_ids |-> n.L.seen_ids,
                   first_run |-> n.L.first_run, out |-> <<>>])
       /\ poll' = [poll EXCEPT ![w] =
                     [status |-> r.status, body |-> r.body, parsed |-> n.parsed,
                      n200 |-> IF r.status = "200" /\ @.n200 < 2 THEN @.n200 + 1 ELSE @.n200,
                      pre |-> Locals(w),
                      validated |-> etag_support(r.hdr[1], r.hdr[2])]]
  /\ boot_keys' = IF r.status = "200" /\ poll[w].n200 = 0
                    THEN [boot_keys EXCEPT ![w] = Keys(parse(r.body))] ELSE boot_keys
  /\ polls' = IF r.status = "200" THEN polls + 1 ELSE polls
  /\ returned' = IF r.status = "200"
                   THEN [returned EXCEPT ![w] =
                          [k \in AllKeys |->
                             IF k \in Keys(parse(r.body)) /\ @[k] < 2 THEN @[k] + 1 ELSE @[k]]]
                   ELSE returned
  /\ UNCHANGED <<classv, active_feeds, monitor_thread, monitor_running, name, stop_pc,
                 cl, broken, starts, stops, stopLast, stop_redundant, last_rc>>

\* the rest of the iteration, one broadcast step at a time
watch_feed_emit(w) ==
  /\ pc[w] = "emit"
  /\ thr[w[1]] = "running"
  /\ Emit(w, [todo |-> todo[w], commit |-> commit[w], guarded |-> guarded[w],
              start |-> poll[w].status = "start", seen_ids |-> seen_ids[w],
              first_run |-> first_run[w], out |-> out[w]])
  /\ UNCHANGED <<classv, active_feeds, monitor_thread, monitor_running, etag, last_mod,
                 last_hash, name, stop_pc, cl, broken,
                 starts, stops, polls, stopLast, stop_redundant, poll, boot_keys,
                 returned, last_rc>>

\* ------------------------------------------------------------ websocket
Min(a, b) == IF a < b THEN a ELSE b

\* line 272
ws_connect(c) ==
  /\ cl[c] = "idle"
  /\ connected_clients' = connected_clients \cup {c}
  /\ cl' = [cl EXCEPT ![c] = "joined"]
  /\ UNCHANGED <<classv, active_feeds, monitor_thread, monitor_running, incidents_log,
                 thr, wlocals, wctl, bc, stop_pc, broken, recv, ghostv>>

\* lines 274-278: the replay of incidents_log[:20]; the first failing send
\* ends it
ws_replay(c) ==
  /\ cl[c] = "joined"
  /\ cl' = [cl EXCEPT ![c] = "open"]
  /\ recv' = IF c \in broken THEN recv
             ELSE [recv EXCEPT ![c] =
                     @ \o SubSeq(incidents_log, 1, Min(REPLAY, Len(incidents_log)))]
  /\ UNCHANGED <<classv, globals, thr, wlocals, wctl, bc, stop_pc, broken, ghostv>>

\* the peer goes away: from now on ws.send and ws.receive raise
ws_drop(c) ==
  /\ cl[c] \in {"joined", "open"}
  /\ c \notin broken
  /\ broken' = broken \cup {c}
  /\ UNCHANGED <<classv, globals, thr, wlocals, wctl, bc, stop_pc, cl, recv, ghostv>>

\* lines 279-285: ws.receive raises, the finally clause discards the socket;
\* the handler returns and what the connection had received is gone with it
ws_close(c) ==
  /\ cl[c] = "open"
  /\ c \in broken
  /\ connected_clients' = connected_clients \ {c}
  /\ cl' = [cl EXCEPT ![c] = "closed"]
  /\ recv' = [recv EXCEPT ![c] = <<>>]
  /\ UNCHANGED <<classv, active_feeds, monitor_thread, monitor_running, incidents_log,
                 thr, wlocals, wctl, bc, stop_pc, broken, ghostv>>

\* ------------------------------------------------------- extract_product

\* str.lower() on the ASCII letters, the only cased characters of the inputs
UpperCase == "ABCDEFGHIJKLMNOPQRSTUVWXYZ"
LowerCase == "abcdefghijklmnopqrstuvwxyz"
Char(s, i) == SubSeq(s, i, i)

lower_char(c) ==
  IF \E i \in 1..Len(UpperCase) : Char(UpperCase, i) = c
  THEN Char(LowerCase, CHOOSE i \in 1..Len(UpperCase) : Char(UpperCase, i) = c)
  ELSE c

RECURSIVE lower(_)
lower(s) ==
  IF Len(s) = 0 THEN "" ELSE lower_char(Char(s, 1)) \o lower(SubSeq(s, 2, Len(s)))

\* kw in combined
Contains(combined, kw) ==
  \E i \in 1..(Len(combined) - Len(kw) + 1) : SubSeq(combined, i, i + Len(kw) - 1) = kw

\* the dict literal, in its insertion order (the order items() yields)
product_map == <<
  [product |-> "Chat Completions / ChatGPT", keywords |-> <<"chat completions", "chatgpt", "chat">>],
  [product |-> "Responses API",              keywords |-> <<"responses api">>],
  [product |-> "Assistants API",             keywords |-> <<"assistants api", "assistants">>],
  [product |-> "Embeddings",                 keywords |-> <<"embeddings">>],
  [product |-> "Fine-tuning",                keywords |-> <<"fine-tun">>],
  [product |-> "DALL-E / Images API",        keywords |-> <<"dall-e", "image generation", "images api">>],
  [product |-> "Whisper / Audio API",        keywords |-> <<"whisper", "audio", "speech">>],
  [product |-> "Realtime API",               keywords |-> <<"realtime">>],
  [product |-> "Batch API",                  keywords |-> <<"batch">>],
  [product |-> "OpenAI API",                 keywords |-> <<"api">> ] >>

\* any(kw in combined for kw in keywords)
any_kw(keywords, combined) ==
  \E j \in DOMAIN keywords : Contains(combined, keywords[j])

\* the for loop from its i-th item on: the first item with a keyword returns
RECURSIVE first_match(_, _)
first_match(combined, i) ==
  IF i > Len(product_map) THEN "Platform"
  ELSE IF any_kw(product_map[i].keywords, combined) THEN product_map[i].product
  ELSE first_match(combined, i + 1)

\* a loop that does not return at its first hit: the last matching item wins
RECURSIVE last_match(_, _, _)
last_match(combined, i, found) ==
  IF i > Len(product_map) THEN found
  ELSE last_match(combined, i + 1,
                  IF any_kw(product_map[i].keywords, combined)
                  THEN product_map[i].product ELSE found)

extract_product_last_match(title, content) ==
  last_match(lower(title \o " " \o content), 1, "Platform")

extract_product(title, content) ==
  first_match(lower(title \o " " \o content), 1)

\* the titles and summaries the function is applied to
Titles ==
  { "ChatGPT and API outage", "CHAT COMPLETIONS DOWN", "Elevated errors in Responses API",
    "Assistants API degraded", "Embeddings latency", "Fine-Tuning jobs delayed",
    "DALL-E errors", "Image", "Whisper failures", "Realtime sessions dropping",
    "Batch jobs stuck", "API errors", "Rapid recovery", "Login issues", "" }
Contents ==
  { "", "Investigating.", "We are investigating issues with the API.",
    "ChatGPT users affected", "audio and speech endpoints", "generation failing",
    "batch and realtime", "Fine-tuned models", "Images api and embeddings", "assistants" }

\* one call: extract_product(title, content)
extract_product_call ==
  /\ product = None
  /\ product' = extract_product(arg_title, arg_content)
  /\ UNCHANGED <<arg_title, arg_content>>
  /\ UNCHANGED <<globals, thr, wlocals, wctl, bc, stop_pc, clientv, ghostv>>

\* ------------------------------------------------------------------ Next
\* The steps of the system by thread, with the inputs drawn from: F, the feed
\* lists of a start request; S, the sessions that may be started; T, the
\* number of stop requests; R, the responses of the origin; P, the number of
\* responses of status 200; C, the connections that may be opened.
Starts(F, S) ==
  \/ \E feeds \in F : (feeds # <<>> => starts + 1 \in S) /\ api_start(feeds)
  \/ \E s \in Sessions : start_monitor_thread(s)

Stops(T) ==
  \/ stops < T /\ api_stop_call
  \/ api_stop_broadcast

\* the steps of the coroutine w
Watcher(w, R, P) ==
  \/ watch_feed_start(w)
  \/ watch_feed_loop(w)
  \/ \E r \in R : (r.status = "200" => polls < P) /\ watch_feed_response(w, r)
  \/ watch_feed_emit(w)

Watchers(R, P) == \E w \in WIds : Watcher(w, R, P)

Sockets(C) ==
  \/ \E c \in C : ws_connect(c)
  \/ \E c \in C : ws_replay(c)
  \/ \E c \in C : ws_drop(c)
  \/ \E c \in C : ws_close(c)

\* the whole system: sessions replacing one another, stop requests and a
\* subscriber, on a feed without validators
LeanResponses ==
  [status : {"304", "exc"}, body : {None}, hdr : {<<None, None>>}]
    \cup [status : {"200"}, body : {"a1"}, hdr : {<<None, None>>}]

Next ==
  \/ Starts(FeedLists, Sessions)
  \/ Stops(MaxStops)
  \/ Watchers(LeanResponses, MaxPolls)
  \/ Sockets({1})

Spec == Init /\ [][Next]_vars

\* One session with one watcher and one subscriber, on a feed whose body and
\* validators change from response to response.
WatchPolls == 2
WatchResponses ==
  [status : {"304", "500", "exc"}, body : {None}, hdr : {<<None, None>>}]
    \cup [status : {"200"}, body : {"empty", "a1", "ba", "c", "cba"},
          hdr : {<<None, None>>, <<"E1", None>>, <<None, "M1">>}]

NextWatch ==
  \/ Starts({<<>>, <<"f1">>}, {1})
  \/ Watchers(WatchResponses, WatchPolls)
  \/ Sockets({1})

SpecWatch == Init /\ [][NextWatch]_vars

\* The same, on a feed that returns the entries A and B again and again, with
\* and without an ETag.
DedupPolls == 3
DedupResponses ==
  [status : {"304", "exc"}, body : {None}, hdr : {<<None, None>>}]
    \cup [status : {"200"}, body : {"a1", "ba"}, hdr : {<<None, None>>, <<"E1", None>>}]

NextDedup ==
  \/ Starts({<<>>, <<"f1">>}, {1})
  \/ Watchers(DedupResponses, DedupPolls)
  \/ Sockets({1})

SpecDedup == Init /\ [][NextDedup]_vars

\* Sessions replacing one another, without stop requests and subscribers.
\* Every monitor thread that was started gets to run, and every coroutine
\* that can take a step takes one: a sleep ends, a request is answered or
\* times out (line 108), a send returns.
NextFair ==
  \/ Starts({<<"f1">>}, Sessions)
  \/ Watchers(LeanResponses, MaxPolls)

FairSpec ==
  /\ Init
  /\ [][NextFair]_vars
  /\ \A s \in Sessions : WF_vars(start_monitor_thread(s))
  /\ \A w \in WIds : WF_vars(Watcher(w, LeanResponses, MaxPolls))

\* One session with start requests that are rejected, repeated stop requests
\* and one subscriber.
CtlStops == 2

NextCtl ==
  \/ Starts({<<>>, <<"f1">>}, {1})
  \/ Stops(CtlStops)
  \/ Watchers(LeanResponses, MaxPolls)
  \/ Sockets({1})

SpecCtl == Init /\ [][NextCtl]_vars

\* One session with one watcher and two subscribers that come and go.
SinkResponses ==
  [status : {"304"}, body : {None}, hdr : {<<None, None>>}]
    \cup [status : {"200"}, body : {"a1"}, hdr : {<<None, None>>}]

NextSink ==
  \/ Starts({<<"f1">>}, {1})
  \/ Watchers(SinkResponses, MaxPolls)
  \/ Sockets({1, 2})

SpecSink == Init /\ [][NextSink]_vars

\* one session of one feed whose entries have an id, only a link, or neither
KeyResponses ==
  [status : {"exc"}, body : {None}, hdr : {<<None, None>>}]
    \cup [status : {"200"}, body : {"nn", "c", "a1"}, hdr : {<<None, None>>}]

NextKeys ==
  \/ Starts({<<"f1">>}, {1})
  \/ Watchers(KeyResponses, WatchPolls)
  \/ Sockets({1})

SpecKeys == Init /\ [][NextKeys]_vars

\* extract_product alone, applied to every title and summary of the sets
InitClassify ==
  /\ InitMonitor
  /\ arg_title \in Titles
  /\ arg_content \in Contents
  /\ product = None

NextClassify == extract_product_call

SpecClassify == InitClassify /\ [][NextClassify]_vars

\* ---------------------------------------------------------------- claims
\* the watcher is between two loop iterations (asleep, fetching or stopped)
Quiet(w) == pc[w] \in {"sleep", "fetch", "stopped"}

IncidentsOf(seq) == SelectSeq(seq, LAMBDA e : e.type = "incident")
LogsOf(seq) == SelectSeq(seq, LAMBDA e : e.type = "log")

\* how many of the incidents the watcher has emitted carry the key k
Emissions(w, k) == Cardinality({i \in DOMAIN emitted[w] : emitted[w][i].key = k})
NewEmissions(w, k) ==
  Cardinality({i \in DOMAIN emitted[w] : emitted[w][i].key = k /\ emitted[w][i].is_new})

HasLog(evs, level, msg) == \E i \in DOMAIN evs : evs[i] = LogEv(level, msg)

\* the watcher has finished the loop iteration of a response of this status
Finished(w, status) == Quiet(w) /\ poll[w].status = status

\* C2: the first poll of status 200 emits at most one Incident, with
\* is_new=False and built from entries[0], and none when the poll returns no
\* entry; every entry of that poll is in seen_ids from then on, and no Incident
\* with is_new=True is ever emitted for one of them.
C2_BootstrapOnce ==
  \A w \in WIds :
    /\ (Finished(w, "200") /\ poll[w].n200 = 1) =>
         LET entries == parse(poll[w].body) IN
           /\ Len(IncidentsOf(out[w])) <= 1
           /\ entries = <<>> => IncidentsOf(out[w]) = <<>>
           /\ \A i \in DOMAIN IncidentsOf(out[w]) :
                IncidentsOf(out[w])[i] = Incident(entries[1], name[w], FALSE, w[1])
    /\ (Quiet(w) /\ poll[w].n200 >= 1) => boot_keys[w] \subseteq seen_ids[w]
    /\ \A k \in boot_keys[w] : NewEmissions(w, k) = 0

\* the entries of a response whose dedup key is not in seen, in feed order
Unseen(entries, seen) == SelectSeq(entries, LAMBDA e : uid(e) \notin seen)

\* C3: a poll of status 200 that is not the first one and whose body is
\* parsed emits exactly the Incidents of the entries whose key was not in
\* seen_ids, with is_new=True, oldest first (the reverse of the feed order).
C3_ChronologicalOrder ==
  \A w \in WIds :
    (Finished(w, "200") /\ poll[w].parsed /\ ~poll[w].pre.first_run) =>
      LET rev == Reverse(Unseen(parse(poll[w].body), poll[w].pre.seen_ids))
      IN IncidentsOf(out[w]) =
           [i \in 1..Len(rev) |-> Incident(rev[i], name[w], TRUE, w[1])]

\* C4: a poll of status 304 does not reach the parser, emits no Incident,
\* emits exactly one Log, of level ok, and leaves etag, last_mod, last_hash,
\* seen_ids and first_run as they were.
C4_NotModifiedShortCircuit ==
  \A w \in WIds :
    Finished(w, "304") =>
      /\ ~poll[w].parsed
      /\ IncidentsOf(out[w]) = <<>>
      /\ Len(LogsOf(out[w])) = 1
      /\ LogsOf(out[w])[1].level = "ok"
      /\ Locals(w) = poll[w].pre

\* C5: a poll is declared unchanged by the comparison of the body hash with
\* last_hash only when no response of the feed has ever carried an ETag or a
\* Last-Modified header.  (etag and last_mod keep the last validator received
\* and are never cleared: one of them is set exactly when some earlier
\* response of status 200 carried that header.)
C5_NoHashOnceValidated ==
  \A w \in WIds :
    HasLog(out[w], "ok", "hash") => (etag[w] = None /\ last_mod[w] = None)

\* C6: once stop has been called and no start has been called after it, the
\* running flag stays false (so that every watcher leaves its loop at its next
\* test of line 101), whatever the interleaving of the stop call with the
\* monitor thread of the start before it.  stopLast: the last call of a
\* session route was a stop.
C6_StopTakesEffect == stopLast => ~monitor_running

\* a start has been accepted after the one that spawned the watcher w
Replaced(w) == pc[w] # "none" /\ starts > w[1]

\* C7: every watcher of a session that a later start has replaced eventually
\* observes the stop signal and leaves its loop.
C7_OldSessionStops ==
  \A w \in WIds : [](Replaced(w) => <>(pc[w] = "stopped"))

\* C8: a start request with an empty or missing feed list is answered 400 and
\* changes nothing: the globals, the monitor threads, the watchers and the
\* subscribers are after the call as they were before it.
C8_RejectedStartChangesNothing ==
  [][(last_rc # 400 /\ last_rc' = 400) =>
       UNCHANGED <<globals, thr, wlocals, wctl, bc, stop_pc, clientv>>]_vars

\* a start request was rejected as the last call of a session route, on a
\* running session with a watcher in its loop and a non-empty log
C8_Witness ==
  /\ last_rc = 400
  /\ monitor_running
  /\ incidents_log # <<>>
  /\ \E w \in WIds : pc[w] \in {"sleep", "fetch"}

\* C9: a stop request on a session that is already stopped or was never
\* started produces no error, leaves the running flag false, and leaves the
\* set of registered subscribers and what they have been delivered as they
\* would be without it.  The steps of the request are the call itself and
\* the steps of its broadcast (caller 0).
C9_StopIdempotent ==
  [][((stops' # stops \/ bc'[0] # bc[0]) /\ stop_redundant') =>
       /\ ~monitor_running'
       /\ last_rc' # 500
       /\ connected_clients' = connected_clients
       /\ recv' = recv]_vars

\* the broadcast of caller k returns or raises in this step
BroadcastEnds(k) == bc[k].on /\ ~bc'[k].on

\* the broadcast of caller k ends in this step with an exception: the stop
\* request answers 500; the watcher enters the except clause of line 204, or
\* its coroutine dies
BroadcastRaises(k) ==
  /\ BroadcastEnds(k)
  /\ IF k = 0 THEN last_rc' = 500
      ELSE \E w \in WIds :
             /\ w[1] = k /\ pc[w] = "emit"
             /\ \/ pc'[w] = "crashed"
                \/ guarded[w] /\ ~guarded'[w] /\ todo'[w] # <<>>

\* C10: a broadcast attempts the delivery to every subscriber registered at
\* the time of the call; it raises no error to its caller; when it ends, the
\* subscribers whose send failed are not registered any more and those whose
\* send succeeded (and whose handler has not ended meanwhile) still are.
C10_FanOutIsolation ==
  [][\A k \in Callers :
       BroadcastEnds(k) =>
         /\ bc[k].start \subseteq bc[k].visited
         /\ ~BroadcastRaises(k)
         /\ connected_clients' \cap bc[k].dead = {}
         /\ (connected_clients \cap bc[k].visited) \ bc[k].dead
               \subseteq connected_clients']_vars

\* C11: no subscriber is added to or removed from connected_clients while a
\* broadcast is iterating it: across a step that leaves the iteration of
\* caller k in progress, the set is the same before and after.
C11_NoMutationDuringBroadcast ==
  [][\A k \in Callers :
       (bc[k].on /\ bc'[k].on) => connected_clients' = connected_clients]_vars

\* C12: the seen_ids of a watcher only grows: no step of the system, whatever
\* the outcome of a poll, removes a key from it.
C12_SeenIdsMonotonic ==
  [][\A w \in WIds : seen_ids[w] \subseteq seen_ids'[w]]_vars

\* a watcher whose second poll of status 200 has added keys to a seen_ids
\* that was not empty
C12_Witness ==
  \E w \in WIds :
    /\ Quiet(w) /\ poll[w].n200 = 2
    /\ poll[w].pre.seen_ids # {}
    /\ poll[w].pre.seen_ids \subseteq seen_ids[w]
    /\ poll[w].pre.seen_ids # seen_ids[w]

\* C13: first_run goes from true to false once, on the first poll of status
\* 200: between two iterations it is true exactly as long as the watcher has
\* had no response of status 200.
C13_FirstRunOnce ==
  \A w \in WIds : Quiet(w) => (first_run[w] <=> poll[w].n200 = 0)

\* C14: a poll that ends in an exception of the fetch or in a status other
\* than 200 and 304 does not end the watcher; when the iteration is over it
\* has emitted Logs of level error or warn only, at least one, no Incident,
\* and the watcher's locals are as before the poll.
C14_TransportFailureTransient ==
  \A w \in WIds :
    poll[w].status \in {"exc", "500"} =>
      /\ pc[w] # "crashed"
      /\ Quiet(w) =>
           /\ out[w] # <<>>
           /\ \A i \in DOMAIN out[w] :
                out[w][i].type = "log" /\ out[w][i].level \in {"error", "warn"}
           /\ Locals(w) = poll[w].pre


\* C15 - Classification priority: the result of extract_product is the label
\* of the first rule, in the order Chat, Responses, Assistants, Embeddings,
\* Fine-tuning, Images, Audio, Realtime, Batch, generic API, one of whose
\* keywords occurs, letter case ignored, in title + " " + content; it is
\* "Platform" when no rule has one. A text with a Chat keyword and "api" is
\* classified as Chat, never as the generic API.
C15_Order ==
  << "Chat Completions / ChatGPT", "Responses API", "Assistants API", "Embeddings",
     "Fine-tuning", "DALL-E / Images API", "Whisper / Audio API", "Realtime API",
     "Batch API", "OpenAI API" >>
C15_SameLetter(a, b) ==
  \/ a = b
  \/ \E i \in 1..Len(UpperCase) :
       {a, b} \subseteq {Char(UpperCase, i), Char(LowerCase, i)}
C15_Occurs(kw, text) ==
  \E i \in 1..(Len(text) - Len(kw) + 1) :
    \A j \in 1..Len(kw) : C15_SameLetter(Char(text, i + j - 1), Char(kw, j))
C15_Matches(label, text) ==
  \E r \in DOMAIN product_map :
    /\ product_map[r].product = label
    /\ \E k \in DOMAIN product_map[r].keywords :
         C15_Occurs(product_map[r].keywords[k], text)
C15_ClassificationPriority ==
  product # None =>
    LET text == arg_title \o " " \o arg_content
        hits == {i \in DOMAIN C15_Order : C15_Matches(C15_Order[i], text)}
    IN /\ hits = {} => product = "Platform"
       /\ hits # {} => \E i \in hits : (\A j \in hits : i <= j) /\ product = C15_Order[i]
       /\ (1 \in hits /\ C15_Occurs("api", text)) => product = C15_Order[1]
C15_Witness ==
  /\ arg_title = "ChatGPT and API outage"
  /\ C15_Occurs("chatgpt", arg_title) /\ C15_Occurs("api", arg_title)
  /\ product = "Chat Completions / ChatGPT"


\* the events of a sequence that are not the Log of the except clause
ErrorLog == LogEv("error", "exception")
NotError(seq) == SelectSeq(seq, LAMBDA e : e # ErrorLog)

C17_FingerprintFallback ==
  \A w \in WIds :
    /\ ( /\ poll[w].status = "200" /\ poll[w].n200 = 2 /\ ~poll[w].validated
         /\ content_hash(poll[w].body) = poll[w].pre.last_hash ) =>
           /\ ~poll[w].parsed
           /\ IncidentsOf(out[w]) = <<>>
           /\ seen_ids[w] = poll[w].pre.seen_ids
           /\ pc[w] \in {"emit", "sleep", "fetch", "stopped"}
           /\ Quiet(w) =>
                /\ out[w] # <<>> /\ out[w][1] = LogEv("ok", "hash")
                /\ Cardinality({i \in DOMAIN out[w] : out[w][i].level = "ok"}) = 1
    /\ (poll[w].status # "none" /\ pc[w] # "emit") =>
         last_hash[w] = IF poll[w].parsed THEN content_hash(poll[w].body)
                        ELSE poll[w].pre.last_hash


\* C18 - Dedup key fallback: the key of an entry is its id, else its link,
\* else the empty string.  Over the life of a watcher at most one Incident is
\* emitted for all the entries that have neither id nor link; an entry with a
\* non-empty key that the watcher had not seen is never suppressed by an entry
\* with another key: a steady-state poll emits an Incident for it.
C18_DedupKeyFallback ==
  /\ uid(EA) = EA.id /\ uid(EC) = EC.link /\ uid(EN1) = "" /\ uid(EN2) = ""
  /\ \A w \in WIds :
       /\ Emissions(w, "") <= 1
       /\ (Finished(w, "200") /\ poll[w].parsed /\ ~poll[w].pre.first_run) =>
            \A k \in Keys(parse(poll[w].body)) \ poll[w].pre.seen_ids :
              k # "" => \E i \in DOMAIN out[w] : out[w][i].key = k


\* C19 - Session isolation of the accumulated log: every incident of
\* incidents_log was emitted by a watcher of the session of the last accepted
\* start; none of an earlier session's watchers is in the log after the start
\* that cleared it.
C19_LogOfCurrentSession ==
  \A i \in DOMAIN incidents_log : incidents_log[i].by = starts


\* how often the event e is in a sequence, and how often the watchers have
\* emitted it
Count(seq, e) == Cardinality({i \in DOMAIN seq : seq[i] = e})
TimesEmitted(e) ==
  Cardinality({p \in UNION {{<<w, i>> : i \in DOMAIN emitted[w]} : w \in WIds} :
                 emitted[p[1]][p[2]] = e})

\* C20 - Join replay delivers each incident at most once: what a connection
\* has received, by the replay of incidents_log[:20] on connect and by the
\* broadcasts, holds an incident no more often than the watchers emitted it.
C20_ReplayAtMostOnce ==
  \A c \in Clients :
    \A i \in DOMAIN recv[c] :
      recv[c][i].type = "incident" => Count(recv[c], recv[c][i]) <= TimesEmitted(recv[c][i])

====
